---- MODULE Spec2Model ----
(***************************************************************************)
(* A model of the Naver real-estate crawler (src/data_crawling): the       *)
(* pagination-with-retry loop of NaverLandCrawler.collect_data, the single *)
(* page fetch get_real_estate_data, the post-processing of process_data,   *)
(* the writer save_data and the entry point main; and of the question-     *)
(* answering system built on the crawler's data (src/rag): the setup of    *)
(* EstateRAGSystem with its on-disk vector-store cache, ask and            *)
(* test_retrieval.                                                         *)
(*                                                                         *)
(* Strings: TLA+ strings are ASCII, so the Korean literals of the source   *)
(* are written romanised, with the original in a comment.  A string the    *)
(* code builds by formatting is a sequence of fragments (a Text), so that  *)
(* what it contains can be stated.                                        *)
(***************************************************************************)
EXTENDS Integers, Sequences, FiniteSets, TLC

VARIABLES
    pc,            \* position of the single thread in main/run/collect_data
    all_articles,  \* self.all_articles: the accumulator
    current_page,  \* self.current_page: the page cursor
    retry_count,   \* collect_data's local retry_count
    success,       \* collect_data's local success
    data,          \* collect_data's local data (None or a parsed payload)
    response,      \* the upstream's answer to the request in progress
    collected,     \* what collect_data returned: "pending", "True", "False"
    df,            \* run's local df: None or the table of process_data
    out_file,      \* the file at OUTPUT_FILE
    writes,        \* number of calls of save_data (the Writer)
    exit,          \* how main ended: "running", "normal", "interrupted", "error"
    trace,         \* history: the sleeps and HTTP requests made, in order
    pages,         \* history: the payloads of the pages fetched successfully
    DEFAULT_PARAMS,\* config.DEFAULT_PARAMS: the module-level dict of parameters
    params,        \* get_real_estate_data's local params (None outside it)
    \* The question-answering system (src/rag, src/document_loader.py):
    rpc,                  \* position of the thread in EstateRAGSystem.setup
    force_rebuild,        \* setup's parameter force_rebuild
    documents,            \* setup's locals documents / split_documents
    csv_file,             \* the CSV file at csv_path: "missing" or its rows
    cache,                \* the directory vectorstore_cache/faiss_index on disk
    document_loader,      \* self.document_loader
    text_processor,       \* self.text_processor
    vector_store_manager, \* self.vector_store_manager (with its vectorstore)
    rag_chain,            \* self.rag_chain
    outcome,              \* the last call of the system and how it ended
    calls                 \* history: the library calls of the current setup

crawlerVars ==
    <<pc, all_articles, current_page, retry_count, success, data, response,
      collected, df, out_file, writes, exit, trace, pages, DEFAULT_PARAMS,
      params>>

ragVars ==
    <<rpc, force_rebuild, documents, csv_file, cache, document_loader,
      text_processor, vector_store_manager, rag_chain, outcome, calls>>

vars == <<crawlerVars, ragVars>>

(***************************************************************************)
(* Bounds of the model.                                                    *)
(***************************************************************************)
\* The upstream has at most MaxPages pages: page MaxPages never announces more.
MaxPages == 2
\* process_data is checked on accumulators of at most MaxArticles records.
MaxArticles == 2

(***************************************************************************)
(* config.py                                                               *)
(***************************************************************************)
MAX_RETRIES == 3
REQUEST_DELAY == <<3, 5>>
RETRY_DELAY == <<5, 10>>

\* DEFAULT_PARAMS as config.py defines it: the query of the whole district;
\* it has no 'page' item.
ConfiguredParams ==
    ("rletTpCd" :> "OR:APT:JGC:OPST:ABYG:OBYG:VL:YR:DSD:JWJT:SGJT:HOJT:DDDGG") @@
    ("tradTpCd" :> "B2") @@
    ("z" :> "13") @@
    ("lat" :> "37.563475") @@
    ("lon" :> "127.036838") @@
    ("btm" :> "37.5116815") @@
    ("lft" :> "126.9807906") @@
    ("top" :> "37.6152325") @@
    ("rgt" :> "127.0928854") @@
    ("showR0" :> "") @@
    ("totCnt" :> "2310") @@
    ("cortarNo" :> "1120000000")

\* The 18 districts of Seongdong-gu (romanised).
REGION_CODES ==
    ("1120010100" :> "Wangsimnidoseon-dong") @@   \* 왕십리도선동
    ("1120010200" :> "Wangsimni-je2-dong") @@     \* 왕십리제2동
    ("1120010300" :> "Majang-dong") @@            \* 마장동
    ("1120010400" :> "Sageun-dong") @@            \* 사근동
    ("1120010500" :> "Haengdang-je1-dong") @@     \* 행당제1동
    ("1120010600" :> "Haengdang-je2-dong") @@     \* 행당제2동
    ("1120010700" :> "Eungbong-dong") @@          \* 응봉동
    ("1120010800" :> "Geumho1ga-dong") @@         \* 금호1가동
    ("1120010900" :> "Geumho2ga-dong") @@         \* 금호2가동
    ("1120011000" :> "Geumho3ga-dong") @@         \* 금호3가동
    ("1120011100" :> "Geumho4ga-dong") @@         \* 금호4가동
    ("1120011200" :> "Oksu-dong") @@              \* 옥수동
    ("1120011300" :> "Seongsu1ga-je1-dong") @@    \* 성수1가제1동
    ("1120011400" :> "Seongsu1ga-je2-dong") @@    \* 성수1가제2동
    ("1120011500" :> "Seongsu2ga-je1-dong") @@    \* 성수2가제1동
    ("1120011600" :> "Seongsu2ga-je3-dong") @@    \* 성수2가제3동
    ("1120011700" :> "Songjeong-dong") @@         \* 송정동
    ("1120011800" :> "Yongdap-dong")              \* 용답동

COLUMNS_TO_SAVE ==
    << "atclNo", "atclNm", "region", "rletTpNm", "tradTpNm", "flrInfo", "prc",
       "rentPrc", "spc1", "spc2", "direction", "atclCfmYmd", "lat", "lng",
       "atclFetrDesc", "bildNm", "rltrNm" >>

OUTPUT_FILE == "naver_real_estate_with_region.csv"

(***************************************************************************)
(* Python values.                                                          *)
(***************************************************************************)
\* None
PyNone == [kind |-> "None"]

\* A cell of a DataFrame column that a record does not have (float nan).
NaN == "<NaN>"

\* str(v) inside an f-string: nan prints as 'nan', a string as itself.
Format(v) == IF v = NaN THEN "nan" ELSE v

\* A listing record is a JSON object: a sequence of <<key, value>> pairs in
\* the order the upstream sent them.
Keys(rec) == [i \in 1..Len(rec) |-> rec[i][1]]

HasKey(rec, k) == \E i \in 1..Len(rec) : rec[i][1] = k

Get(rec, k) == rec[CHOOSE i \in 1..Len(rec) : rec[i][1] = k][2]

\* dict.copy(): a new dict with the same items (the values are strings).
DictCopy(d) == [k \in DOMAIN d |-> d[k]]

\* d[k] = v
SetItem(d, k, v) == [x \in DOMAIN d \cup {k} |-> IF x = k THEN v ELSE d[x]]

SeqToSet(s) == {s[i] : i \in 1..Len(s)}

\* The elements of s that satisfy Keep, in the order of s.
RECURSIVE Filter(_, _)
Filter(s, keep) ==
    IF s = <<>> THEN <<>>
    ELSE (IF Head(s) \in keep THEN <<Head(s)>> ELSE <<>>) \o Filter(Tail(s), keep)

(***************************************************************************)
(* utils.py                                                                *)
(***************************************************************************)
\* get_region_name with the bare code as the default.
get_region_name_bare_default(cortarNo) ==
    IF cortarNo \in DOMAIN REGION_CODES
    THEN <<REGION_CODES[cortarNo]>>
    ELSE <<Format(cortarNo)>>

\* REGION_CODES.get(cortarNo, f'기타지역({cortarNo})'); "gita-jiyeok" is 기타지역.
get_region_name(cortarNo) ==
    IF cortarNo \in DOMAIN REGION_CODES
    THEN <<REGION_CODES[cortarNo]>>
    ELSE <<"gita-jiyeok(", Format(cortarNo), ")">>

\* random_sleep(*delay): the event of sleeping between delay[1] and delay[2] s.
random_sleep(delay) ==
    [ev |-> "sleep", lo |-> delay[1], hi |-> delay[2], page |-> 0, ok |-> TRUE]

\* requests.get(NAVER_LAND_URL, params={..., 'page': page_no}, ...): the event
\* of one request for page page_no, with whether the fetch returned a payload.
http_get(page_no, result) ==
    [ev |-> "GET", lo |-> 0, hi |-> 0, page |-> page_no, ok |-> result # PyNone]

(***************************************************************************)
(* The upstream: what one HTTP request can come back with.                 *)
(***************************************************************************)
RecA == << <<"atclNo", "1001">>, <<"atclNm", "Apt-A">>,
           <<"cortarNo", "1120010300">>, <<"prc", "5000">> >>
RecB == << <<"atclNo", "1002">>, <<"cortarNo", "1120099999">>,
           <<"tagList", "x">> >>
RecC == << <<"prc", "700">>, <<"atclNo", "1003">> >>

\* The record lists a page may carry.
Bodies == { <<>>, <<RecA, RecB>>, <<RecC>> }

\* What response.json() can do: raise, or return the parsed value.
JsonObject(hb, b, hm, m) ==
    [kind |-> "object", has_body |-> hb, body |-> b, has_more |-> hm, more |-> m]
JsonError == [kind |-> "error"]
JsonNull  == [kind |-> "null"]
JsonArray == [kind |-> "array"]

JsonObjects ==
    { JsonObject(TRUE, b, TRUE, m) : b \in Bodies, m \in BOOLEAN } \cup
    { JsonObject(TRUE, b, FALSE, FALSE) : b \in Bodies } \cup
    { JsonObject(FALSE, <<>>, TRUE, m) : m \in BOOLEAN } \cup
    { JsonObject(FALSE, <<>>, FALSE, FALSE) }

\* data.get('body', [])
BodyOf(d) == IF d.has_body THEN d.body ELSE <<>>

\* MoreOf with True as the default of a missing flag.
MoreOfDefaultsTrue(d) == IF d.has_more THEN d.more ELSE TRUE

\* data.get('more', False)
MoreOf(d) == IF d.has_more THEN d.more ELSE FALSE

\* A payload after which collect_data goes on to the next page.
Continues(j) == j.kind = "object" /\ BodyOf(j) # <<>> /\ MoreOf(j)

TransportError == [ok |-> FALSE, status |-> 0, marker |-> FALSE, json |-> JsonError]
NoResponse     == [ok |-> FALSE, status |-> 0, marker |-> FALSE, json |-> JsonNull]

\* What the body of a response may parse to when page page_no is asked for.
UpstreamJson(page_no) ==
    { x \in JsonObjects \cup {JsonError, JsonNull, JsonArray} :
        page_no < MaxPages \/ ~Continues(x) }

\* A page that parses and carries records, as a rejected response may also hold.
LastPage == JsonObject(TRUE, <<RecC>>, TRUE, FALSE)

\* The answers the upstream may give to a request for page page_no: a
\* transport exception, or a status, a body with or without the bot-challenge
\* marker ("비정상적인 접근"), and what parsing the body as JSON gives.
Upstream(page_no) ==
    { TransportError } \cup
    { [ok |-> TRUE, status |-> 200, marker |-> FALSE, json |-> j] :
        j \in UpstreamJson(page_no) } \cup
    { [ok |-> TRUE, status |-> st, marker |-> mk, json |-> j] :
        st \in {200, 500}, mk \in BOOLEAN, j \in {JsonError, JsonNull, LastPage} }

(***************************************************************************)
(* crawler.py                                                              *)
(***************************************************************************)
\* What response.json() returns when it does not raise: JSON null is None.
PyValue(j) == IF j.kind = "null" THEN PyNone ELSE j

\* FetchResult without the test for the bot-challenge marker.
FetchResultNoMarkerTest(resp) ==
    IF ~resp.ok THEN PyNone
    ELSE IF resp.status # 200 THEN PyNone
    ELSE IF resp.json.kind = "error" THEN PyNone
    ELSE PyValue(resp.json)

\* FetchResult without the test of the status code.
FetchResultNoStatusTest(resp) ==
    IF ~resp.ok THEN PyNone
    ELSE IF resp.marker THEN PyNone
    ELSE IF resp.json.kind = "error" THEN PyNone
    ELSE PyValue(resp.json)

\* get_real_estate_data, lines 27-47: what the fetch returns for a response.
FetchResult(resp) ==
    IF ~resp.ok THEN PyNone                       \* except Exception: return None
    ELSE IF resp.status # 200 THEN PyNone
    ELSE IF resp.marker THEN PyNone
    ELSE IF resp.json.kind = "error" THEN PyNone  \* response.json() raises
    ELSE PyValue(resp.json)

\* AfterPage with the continuation flag ignored once the page has records.
AfterPageIgnoresMore(d) ==
    IF BodyOf(d) = <<>> THEN "empty" ELSE "more"

\* AfterPage without the test for an empty record list: only the flag decides.
AfterPageNoEmptyCheck(d) ==
    IF ~MoreOf(d) THEN "last" ELSE "more"

\* lines 80-90: what collect_data does with a fetched page.  "empty": stop,
\* nothing appended; "last": append, stop; "more": append, go to the next page.
AfterPage(d) ==
    IF BodyOf(d) = <<>> THEN "empty"
    ELSE IF ~MoreOf(d) THEN "last"
    ELSE "more"

\* Extend with the new records put in front of the accumulated ones.
ExtendPrepends(acc, d) == d.body \o acc

\* Extend with the accumulator assigned instead of extended.
ExtendReplaces(acc, d) == d.body

\* line 84: self.all_articles.extend(data['body'])
Extend(acc, d) == acc \o d.body

\* LoopCond with the success of the attempt not looked at.
LoopCondIgnoresSuccess(rc, succ) ==
    IF rc < MAX_RETRIES THEN "req_sleep" ELSE "after_retry"

\* LoopCond with the test written <= : one attempt too many.
LoopCondOffByOne(rc, succ) ==
    IF rc <= MAX_RETRIES /\ ~succ THEN "req_sleep" ELSE "after_retry"

\* while retry_count < MAX_RETRIES and not success: where control goes next.
LoopCond(rc, succ) ==
    IF rc < MAX_RETRIES /\ ~succ THEN "req_sleep" ELSE "after_retry"

(***************************************************************************)
(* pandas, as process_data and save_data use it.                           *)
(***************************************************************************)
\* cols followed by the keys of ks that are not in it, in the order of ks.
RECURSIVE AppendNew(_, _)
AppendNew(cols, ks) ==
    IF ks = <<>> THEN cols
    ELSE AppendNew(IF Head(ks) \in SeqToSet(cols) THEN cols
                   ELSE Append(cols, Head(ks)), Tail(ks))

\* The columns of pd.DataFrame(list of dicts): the union of the records' keys
\* in the order they are first seen.
RECURSIVE ColumnsOf(_)
ColumnsOf(arts) ==
    IF arts = <<>> THEN <<>>
    ELSE AppendNew(Keys(Head(arts)), ColumnsOf(Tail(arts)))

\* DataFrame with the rows in the reverse order of the records.
DataFrameRowsReversed(arts) ==
    LET cols == ColumnsOf(arts) IN
    [ columns |-> cols,
      rows |-> [ i \in 1..Len(arts) |->
                 [ c \in SeqToSet(cols) |->
                   IF HasKey(arts[Len(arts) + 1 - i], c)
                   THEN Get(arts[Len(arts) + 1 - i], c) ELSE NaN ] ] ]

\* pd.DataFrame(self.all_articles): one row per record, NaN where a record
\* lacks a column.
DataFrame(arts) ==
    LET cols == ColumnsOf(arts) IN
    [ columns |-> cols,
      rows |-> [ i \in 1..Len(arts) |->
                 [ c \in SeqToSet(cols) |->
                   IF HasKey(arts[i], c) THEN Get(arts[i], c) ELSE NaN ] ] ]

\* df[name] = values: an existing column is overwritten in place, a new one
\* is added last.
SetColumn(frame, name, values) ==
    LET cols == IF name \in SeqToSet(frame.columns) THEN frame.columns
                ELSE Append(frame.columns, name) IN
    [ columns |-> cols,
      rows |-> [ i \in 1..Len(frame.rows) |->
                 [ c \in SeqToSet(cols) |->
                   IF c = name THEN values[i] ELSE frame.rows[i][c] ] ] ]

\* df[cols]: the columns cols, in the order of cols.
Project(frame, cols) ==
    [ columns |-> cols,
      rows |-> [ i \in 1..Len(frame.rows) |->
                 [ c \in SeqToSet(cols) |-> frame.rows[i][c] ] ] ]

\* How to_csv writes a cell: NaN as the empty field, a string as itself (the
\* region column holds the Text of get_region_name, never NaN).
CsvCell(col, v) == IF col = "region" THEN v ELSE IF v = NaN THEN "" ELSE v

\* df.to_csv(OUTPUT_FILE, index=False, encoding='utf-8-sig'): a BOM, a header
\* row and one data row per row of the table, cells in column order.
to_csv(frame) ==
    [ bom |-> TRUE,
      header |-> frame.columns,
      rows |-> [ i \in 1..Len(frame.rows) |->
                 [ k \in 1..Len(frame.columns) |->
                   CsvCell(frame.columns[k], frame.rows[i][frame.columns[k]]) ] ] ]

Absent  == [bom |-> FALSE, header |-> <<"absent">>, rows |-> <<>>]
OldFile == [bom |-> TRUE, header |-> <<"old">>, rows |-> <<>>]
\* The file after a to_csv that opened it for writing and then failed.
Truncated == [bom |-> FALSE, header |-> <<>>, rows |-> <<>>]

(***************************************************************************)
(* crawler.py: process_data                                                *)
(***************************************************************************)
\* '지역정보없음': the region of every row when no record has 'cortarNo'.
NoRegionInfo == <<"jiyeok-jeongbo-eopseum">>

\* with_region with the sentinel given to each row that has no region code.
with_region_sentinel_per_row(frame) ==
    IF "cortarNo" \in SeqToSet(frame.columns)
    THEN SetColumn(frame, "region",
                   [i \in 1..Len(frame.rows) |->
                      IF frame.rows[i]["cortarNo"] = NaN THEN NoRegionInfo
                      ELSE get_region_name(frame.rows[i]["cortarNo"])])
    ELSE SetColumn(frame, "region",
                   [i \in 1..Len(frame.rows) |-> NoRegionInfo])

\* with_region without the else branch: a missing column is looked up as NaN.
with_region_always_looks_up(frame) ==
    SetColumn(frame, "region",
              [i \in 1..Len(frame.rows) |->
                 get_region_name(IF "cortarNo" \in SeqToSet(frame.columns)
                                 THEN frame.rows[i]["cortarNo"] ELSE NaN)])

\* lines 104-108
with_region(frame) ==
    IF "cortarNo" \in SeqToSet(frame.columns)
    THEN SetColumn(frame, "region",
                   [i \in 1..Len(frame.rows) |->
                      get_region_name(frame.rows[i]["cortarNo"])])
    ELSE SetColumn(frame, "region",
                   [i \in 1..Len(frame.rows) |-> NoRegionInfo])

\* available_columns with the loop over df.columns: the table's own order.
available_columns_in_table_order(frame) ==
    Filter(frame.columns, SeqToSet(COLUMNS_TO_SAVE))

\* line 111: [col for col in COLUMNS_TO_SAVE if col in df.columns]
available_columns(frame) == Filter(COLUMNS_TO_SAVE, SeqToSet(frame.columns))

\* process_data without the test for an empty accumulator.
process_data_without_empty_test(arts) ==
    LET frame == with_region(DataFrame(arts)) IN
    Project(frame, available_columns(frame))

\* lines 94-112
process_data(arts) ==
    IF arts = <<>> THEN PyNone
    ELSE LET frame == with_region(DataFrame(arts)) IN
         Project(frame, available_columns(frame))

(***************************************************************************)
(* The question-answering system: rag_system.py, vector_store.py,          *)
(* document_loader.py, text_processor.py.  The embedding service and the   *)
(* language model are taken to answer; the failures modelled are those the *)
(* code provides for (a CSV file that is missing, a cache that does not    *)
(* load, a question before setup) and a splitter that raises.              *)
(***************************************************************************)
\* The CSV file is missing, or holds one of two sets of rows.
CsvMissing == [kind |-> "missing"]
CsvFiles ==
    { CsvMissing,
      [kind |-> "csv", rows |-> <<"row1">>],
      [kind |-> "csv", rows |-> <<"row1", "row2">>] }

\* CSVLoader.load(): one document per row.
Loaded(file) ==
    [kind |-> "docs",
     docs |-> [i \in 1..Len(file.rows) |-> [row |-> file.rows[i], chunk |-> 0]]]

\* TextProcessor.split_documents: every document becomes its chunks (the rows
\* are shorter than CHUNK_SIZE, so one chunk each).
Split(d) ==
    [kind |-> "docs",
     docs |-> [i \in 1..Len(d.docs) |-> [row |-> d.docs[i].row, chunk |-> 1]]]

\* A FAISS index over docs, built from documents or read from the cache.
Store(docs, from) == [kind |-> "store", index |-> docs, origin |-> from]

\* The directory faiss_index as save_local writes it.
Saved(docs) == [kind |-> "faiss_index", index |-> docs]

\* The questions asked.
Questions == {"q1", "q2"}

\* No call was made yet.
NoCall == [call |-> "none", raised |-> "none", forwarded |-> PyNone]

\* VectorStoreManager.clear_cache, lines 89-98, on the cache c and the
\* manager's vectorstore vs.
clear_cache(c, vs) ==
    IF c # PyNone
    THEN [cache |-> PyNone, vectorstore |-> PyNone, calls |-> <<"rmtree">>]
    ELSE [cache |-> c, vectorstore |-> vs, calls |-> <<>>]

\* load_or_create_vectorstore that gives up when the cache does not load.
load_or_create_no_fallback(c, vs, d, loads) ==
    IF c # PyNone
    THEN IF loads
         THEN [cache |-> c, vectorstore |-> Store(c.index, "cache"),
               raised |-> "none", calls |-> <<"load_local">>]
         ELSE [cache |-> c, vectorstore |-> vs, raised |-> "ValueError",
               calls |-> <<"load_local">>]
    ELSE IF d = PyNone
         THEN [cache |-> c, vectorstore |-> vs, raised |-> "ValueError",
               calls |-> <<>>]
         ELSE [cache |-> Saved(d.docs),
               vectorstore |-> Store(d.docs, "documents"),
               raised |-> "none", calls |-> <<"from_documents", "save_local">>]

\* VectorStoreManager.load_or_create_vectorstore, lines 28-67, on the cache c,
\* the manager's vectorstore vs and the argument d (None or documents); loads
\* says whether FAISS.load_local succeeds.  The result is the cache and the
\* vectorstore afterwards, the exception raised and the library calls made.
load_or_create_vectorstore(c, vs, d, loads) ==
    IF c # PyNone /\ loads
    THEN [cache |-> c, vectorstore |-> Store(c.index, "cache"),
          raised |-> "none", calls |-> <<"load_local">>]
    ELSE LET tried == IF c # PyNone THEN <<"load_local">> ELSE <<>> IN
         IF d = PyNone
         THEN [cache |-> c, vectorstore |-> vs, raised |-> "ValueError",
               calls |-> tried]
         ELSE [cache |-> Saved(d.docs),
               vectorstore |-> Store(d.docs, "documents"),
               raised |-> "none",
               calls |-> tried \o <<"from_documents", "save_local">>]

\* The branch of setup with force_rebuild not looked at.
SetupBranchIgnoresForce(exists, force) == IF exists THEN "load" ELSE "docs"

\* setup, line 45: if cache_info["exists"] and not force_rebuild.
SetupBranch(exists, force) == IF exists /\ ~force THEN "load" ELSE "docs"

\* EstateRAGSystem.__init__, lines 20-29, has not run or has just run: no
\* component is set, no setup is in progress.
RagNotConstructed ==
    /\ rpc = "idle"
    /\ force_rebuild = FALSE
    /\ documents = PyNone
    /\ csv_file = CsvMissing
    /\ cache = PyNone
    /\ document_loader = PyNone
    /\ text_processor = PyNone
    /\ vector_store_manager = PyNone
    /\ rag_chain = PyNone
    /\ outcome = NoCall
    /\ calls = <<>>

\* A call ends: setup's locals are gone.
EndOfSetup ==
    /\ rpc' = "idle"
    /\ force_rebuild' = FALSE
    /\ documents' = PyNone

\* setup, lines 37-45 and 56-59: a new manager without a vectorstore replaces
\* the old one, then the cache is looked for.
SetupBegin ==
    /\ rpc = "idle"
    /\ \E force \in BOOLEAN :
         /\ force_rebuild' = force
         /\ rpc' = SetupBranch(cache # PyNone, force)
    /\ vector_store_manager' = [vectorstore |-> PyNone]
    /\ outcome' = [call |-> "setup", raised |-> "none", forwarded |-> PyNone]
    /\ calls' = <<>>
    /\ UNCHANGED <<documents, csv_file, cache, document_loader, text_processor,
                   rag_chain, crawlerVars>>

\* setup, lines 46-53: the vectorstore is loaded from the cache, no documents
\* are passed.
CachedLoad ==
    /\ rpc = "load"
    /\ \E loads \in BOOLEAN :
         LET r == load_or_create_vectorstore(cache,
                     vector_store_manager.vectorstore, PyNone, loads) IN
         /\ cache' = r.cache
         /\ vector_store_manager' = [vectorstore |-> r.vectorstore]
         /\ calls' = calls \o r.calls
         /\ IF r.raised = "none"
            THEN /\ rpc' = "chain"
                 /\ UNCHANGED <<force_rebuild, documents, outcome>>
            ELSE /\ EndOfSetup
                 /\ outcome' = [outcome EXCEPT !.raised = r.raised]
    /\ UNCHANGED <<csv_file, document_loader, text_processor, rag_chain,
                   crawlerVars>>

\* LoadDocuments with the cache cleared first under force_rebuild.
LoadDocumentsAfterClear ==
    /\ rpc = "docs"
    /\ document_loader' = [file_path |-> "csv_path"]
    /\ calls' = Append(calls, "load_documents")
    /\ cache' = IF force_rebuild THEN PyNone ELSE cache
    /\ IF csv_file = CsvMissing
       THEN /\ EndOfSetup
            /\ outcome' = [outcome EXCEPT !.raised = "FileNotFoundError"]
       ELSE /\ documents' = Loaded(csv_file)
            /\ rpc' = "split"
            /\ UNCHANGED <<force_rebuild, outcome>>
    /\ UNCHANGED <<csv_file, text_processor, vector_store_manager,
                   rag_chain, crawlerVars>>

\* setup, lines 63-64, and load_documents, lines 32-36: the loader is set,
\* then the file is read or found missing.
LoadDocuments ==
    /\ rpc = "docs"
    /\ document_loader' = [file_path |-> "csv_path"]
    /\ calls' = Append(calls, "load_documents")
    /\ IF csv_file = CsvMissing
       THEN /\ EndOfSetup
            /\ outcome' = [outcome EXCEPT !.raised = "FileNotFoundError"]
       ELSE /\ documents' = Loaded(csv_file)
            /\ rpc' = "split"
            /\ UNCHANGED <<force_rebuild, outcome>>
    /\ UNCHANGED <<csv_file, cache, text_processor, vector_store_manager,
                   rag_chain, crawlerVars>>

\* setup, lines 68-69: the splitter is set and the documents are split.
SplitDocuments ==
    /\ rpc = "split"
    /\ text_processor' = [splitter |-> "RecursiveCharacterTextSplitter"]
    /\ calls' = Append(calls, "split_documents")
    /\ documents' = Split(documents)
    /\ rpc' = "store"
    /\ UNCHANGED <<force_rebuild, csv_file, cache, document_loader,
                   vector_store_manager, rag_chain, outcome, crawlerVars>>

\* setup, lines 68-69, when the splitter raises.
SplitRaises ==
    /\ rpc = "split"
    /\ text_processor' = [splitter |-> "RecursiveCharacterTextSplitter"]
    /\ calls' = Append(calls, "split_documents")
    /\ EndOfSetup
    /\ outcome' = [outcome EXCEPT !.raised = "Exception"]
    /\ UNCHANGED <<csv_file, cache, document_loader, vector_store_manager,
                   rag_chain, crawlerVars>>

\* setup, lines 73-75: under force_rebuild the cache is cleared, then the
\* vectorstore is loaded or created with the split documents.
BuildStore ==
    /\ rpc = "store"
    /\ \E loads \in BOOLEAN :
         LET cl == IF force_rebuild
                   THEN clear_cache(cache, vector_store_manager.vectorstore)
                   ELSE [cache |-> cache,
                         vectorstore |-> vector_store_manager.vectorstore,
                         calls |-> <<>>]
             r == load_or_create_vectorstore(cl.cache, cl.vectorstore,
                                             documents, loads)
         IN  /\ cache' = r.cache
             /\ vector_store_manager' = [vectorstore |-> r.vectorstore]
             /\ calls' = calls \o cl.calls \o r.calls
             /\ rpc' = "chain"
             /\ UNCHANGED <<force_rebuild, documents, outcome>>
    /\ UNCHANGED <<csv_file, document_loader, text_processor, rag_chain,
                   crawlerVars>>

\* setup, lines 79-80: the chain is built on the retriever of the manager's
\* vectorstore, and setup returns.
BuildChain ==
    /\ rpc = "chain"
    /\ rag_chain' = [retriever |-> vector_store_manager.vectorstore]
    /\ EndOfSetup
    /\ UNCHANGED <<csv_file, cache, document_loader, text_processor,
                   vector_store_manager, outcome, calls, crawlerVars>>

\* What ask and test_retrieval do with the question when the guard on
\* rag_chain is left out.
AnswerUnguarded(name, chain, q) ==
    [call |-> name, raised |-> "none",
     forwarded |-> [kind |-> "invoke", question |-> q, chain |-> chain]]

\* ask, lines 99-102, and test_retrieval, lines 106-109: ValueError without a
\* chain, otherwise the question goes to the chain.
Answer(name, chain, q) ==
    IF chain = PyNone
    THEN [call |-> name, raised |-> "ValueError", forwarded |-> PyNone]
    ELSE [call |-> name, raised |-> "none",
          forwarded |-> [kind |-> "invoke", question |-> q, chain |-> chain]]

\* EstateRAGSystem.ask
Ask ==
    /\ rpc = "idle"
    /\ \E q \in Questions : outcome' = Answer("ask", rag_chain, q)
    /\ UNCHANGED <<rpc, force_rebuild, documents, csv_file, cache,
                   document_loader, text_processor, vector_store_manager,
                   rag_chain, calls, crawlerVars>>

\* EstateRAGSystem.test_retrieval
TestRetrieval ==
    /\ rpc = "idle"
    /\ \E q \in Questions : outcome' = Answer("test_retrieval", rag_chain, q)
    /\ UNCHANGED <<rpc, force_rebuild, documents, csv_file, cache,
                   document_loader, text_processor, vector_store_manager,
                   rag_chain, calls, crawlerVars>>

\* EstateRAGSystem.clear_cache, lines 116-121: the manager's clear_cache, if
\* there is a manager.
ClearCache ==
    /\ rpc = "idle"
    /\ IF vector_store_manager = PyNone
       THEN UNCHANGED <<cache, vector_store_manager>>
       ELSE LET cl == clear_cache(cache, vector_store_manager.vectorstore) IN
            /\ cache' = cl.cache
            /\ vector_store_manager' = [vectorstore |-> cl.vectorstore]
    /\ outcome' = [call |-> "clear_cache", raised |-> "none",
                   forwarded |-> PyNone]
    /\ UNCHANGED <<rpc, force_rebuild, documents, csv_file, document_loader,
                   text_processor, rag_chain, calls, crawlerVars>>

\* What a caller may pass to load_or_create_vectorstore: nothing, or the
\* split documents of a CSV file.
DocumentArguments ==
    {PyNone} \cup { Split(Loaded(f)) : f \in CsvFiles \ {CsvMissing} }

\* VectorStoreManager.load_or_create_vectorstore (or create_vectorstore, lines
\* 69-79) called on the system's manager outside setup, with or without
\* documents.
LoadOrCreateVectorstore ==
    /\ rpc = "idle"
    /\ vector_store_manager # PyNone
    /\ \E d \in DocumentArguments, loads \in BOOLEAN :
         LET r == load_or_create_vectorstore(cache,
                     vector_store_manager.vectorstore, d, loads) IN
         /\ cache' = r.cache
         /\ vector_store_manager' = [vectorstore |-> r.vectorstore]
         /\ calls' = r.calls
         /\ outcome' = [call |-> "load_or_create_vectorstore",
                        raised |-> r.raised, forwarded |-> PyNone,
                        argument |-> d]
    /\ UNCHANGED <<rpc, force_rebuild, documents, csv_file, document_loader,
                   text_processor, rag_chain, crawlerVars>>

\* The state of the crawler while the question-answering system is used: its
\* run is over.
CrawlerNotRunning ==
    /\ pc = "done"
    /\ all_articles = <<>>
    /\ current_page = 1
    /\ retry_count = 0
    /\ success = FALSE
    /\ data = PyNone
    /\ response = NoResponse
    /\ collected = "True"
    /\ df = PyNone
    /\ out_file = OldFile
    /\ writes = 1
    /\ exit = "normal"
    /\ trace = <<>>
    /\ pages = <<>>
    /\ DEFAULT_PARAMS = ConfiguredParams
    /\ params = PyNone

\* EstateRAGSystem() was constructed; the CSV file is there or not, and a
\* cache of an earlier process is there or not.
InitRag ==
    /\ CrawlerNotRunning
    /\ rpc = "idle"
    /\ force_rebuild = FALSE
    /\ documents = PyNone
    /\ csv_file \in CsvFiles
    /\ cache \in {PyNone, Saved(Split(Loaded([kind |-> "csv", rows |-> <<"row0">>])).docs)}
    /\ document_loader = PyNone
    /\ text_processor = PyNone
    /\ vector_store_manager = PyNone
    /\ rag_chain = PyNone
    /\ outcome = NoCall
    /\ calls = <<>>

NextRag ==
    \/ SetupBegin
    \/ CachedLoad
    \/ LoadDocuments
    \/ SplitDocuments
    \/ SplitRaises
    \/ BuildStore
    \/ BuildChain
    \/ Ask
    \/ TestRetrieval
    \/ ClearCache
    \/ LoadOrCreateVectorstore

SpecRag == InitRag /\ [][NextRag]_vars

(***************************************************************************)
(* The run: main -> NaverLandCrawler() -> run -> collect_data ->           *)
(* process_data -> save_data.                                              *)
(***************************************************************************)
\* After NaverLandCrawler.__init__ (lines 15-17), before run().
Init ==
    /\ pc = "run"
    /\ all_articles = <<>>
    /\ current_page = 1
    /\ retry_count = 0
    /\ success = FALSE
    /\ data = PyNone
    /\ response = NoResponse
    /\ collected = "pending"
    /\ df = PyNone
    /\ out_file \in {Absent, OldFile}
    /\ writes = 0
    /\ exit = "running"
    /\ trace = <<>>
    /\ pages = <<>>
    /\ DEFAULT_PARAMS = ConfiguredParams
    /\ params = PyNone
    /\ RagNotConstructed

\* run, lines 120-124: calls collect_data, which enters while True.
Run ==
    /\ pc = "run"
    /\ pc' = "page_top"
    /\ UNCHANGED <<all_articles, current_page, retry_count, success, data,
                   response, collected, df, out_file, writes, exit, trace, pages,
                   DEFAULT_PARAMS, params, ragVars>>

\* PageTop with the retry counter carried over from the page before.
PageTopKeepsCount ==
    /\ pc = "page_top"
    /\ success' = FALSE
    /\ pc' = LoopCond(retry_count, FALSE)
    /\ UNCHANGED <<all_articles, current_page, retry_count, data, response,
                   collected, df, out_file, writes, exit, trace, pages,
                   DEFAULT_PARAMS, params, ragVars>>

\* collect_data, lines 52-55: a new page starts with a fresh retry budget.
PageTop ==
    /\ pc = "page_top"
    /\ retry_count' = 0
    /\ success' = FALSE
    /\ pc' = LoopCond(0, FALSE)
    /\ UNCHANGED <<all_articles, current_page, data, response, collected, df,
                   out_file, writes, exit, trace, pages,
                   DEFAULT_PARAMS, params, ragVars>>

\* RequestSleep with the delay left out: the request follows at once.
RequestSleepSkipped ==
    /\ pc = "req_sleep"
    /\ params' = SetItem(DictCopy(DEFAULT_PARAMS), "page", current_page)
    /\ pc' = "request"
    /\ UNCHANGED <<all_articles, current_page, retry_count, success, data,
                   response, collected, df, out_file, writes, exit, trace, pages,
                   DEFAULT_PARAMS, ragVars>>

\* RequestSleep with the page set in DEFAULT_PARAMS itself, not in a copy.
RequestSleepSharesParams ==
    /\ pc = "req_sleep"
    /\ DEFAULT_PARAMS' = SetItem(DEFAULT_PARAMS, "page", current_page)
    /\ params' = DEFAULT_PARAMS'
    /\ trace' = Append(trace, random_sleep(REQUEST_DELAY))
    /\ pc' = "request"
    /\ UNCHANGED <<all_articles, current_page, retry_count, success, data,
                   response, collected, df, out_file, writes, exit, pages, ragVars>>

\* get_real_estate_data, lines 21-25: the parameters of the request are a copy
\* of DEFAULT_PARAMS with the page set, then the request delay is slept.
RequestSleep ==
    /\ pc = "req_sleep"
    /\ params' = SetItem(DictCopy(DEFAULT_PARAMS), "page", current_page)
    /\ trace' = Append(trace, random_sleep(REQUEST_DELAY))
    /\ pc' = "request"
    /\ UNCHANGED <<all_articles, current_page, retry_count, success, data,
                   response, collected, df, out_file, writes, exit, pages,
                   DEFAULT_PARAMS, ragVars>>

\* collect_data, lines 68-74: an Exception raised inside its try but outside
\* the try of get_real_estate_data (by the print of line 57 or by the sleep of
\* line 25) is counted as a failed attempt; the third one breaks without sleep.
AttemptRaises ==
    /\ pc = "req_sleep"
    /\ retry_count' = retry_count + 1
    /\ pc' = IF retry_count' < MAX_RETRIES THEN "retry_sleep" ELSE "after_retry"
    /\ UNCHANGED <<all_articles, current_page, success, data, response,
                   collected, df, out_file, writes, exit, trace, pages,
                   DEFAULT_PARAMS, params, ragVars>>

\* get_real_estate_data, lines 27-47, and the assignment of line 58: the page
\* asked for is the one in params, which ends with the call.
Request ==
    /\ pc = "request"
    /\ \E resp \in Upstream(params["page"]) :
         /\ response' = resp
         /\ data' = FetchResult(resp)
    /\ trace' = Append(trace, http_get(params["page"], data'))
    /\ params' = PyNone
    /\ pc' = "got_data"
    /\ UNCHANGED <<all_articles, current_page, retry_count, success, collected,
                   df, out_file, writes, exit, pages, DEFAULT_PARAMS, ragVars>>

\* collect_data, lines 60-66; the response was a local of the fetch.
HandleData ==
    /\ pc = "got_data"
    /\ IF data = PyNone
       THEN /\ retry_count' = retry_count + 1
            /\ pc' = "retry_sleep"
            /\ UNCHANGED success
       ELSE /\ success' = TRUE
            /\ pc' = LoopCond(retry_count, TRUE)
            /\ UNCHANGED retry_count
    /\ response' = NoResponse
    /\ UNCHANGED <<all_articles, current_page, data, collected, df,
                   out_file, writes, exit, trace, pages,
                   DEFAULT_PARAMS, params, ragVars>>

\* RetrySleep with the shorter request delay slept instead of the retry delay.
RetrySleepUsesRequestDelay ==
    /\ pc = "retry_sleep"
    /\ trace' = Append(trace, random_sleep(REQUEST_DELAY))
    /\ pc' = LoopCond(retry_count, success)
    /\ UNCHANGED <<all_articles, current_page, retry_count, success, data,
                   response, collected, df, out_file, writes, exit, pages,
                   DEFAULT_PARAMS, params, ragVars>>

\* collect_data, lines 63-64 and 72-73: the retry delay, then the loop test.
RetrySleep ==
    /\ pc = "retry_sleep"
    /\ trace' = Append(trace, random_sleep(RETRY_DELAY))
    /\ pc' = LoopCond(retry_count, success)
    /\ UNCHANGED <<all_articles, current_page, retry_count, success, data,
                   response, collected, df, out_file, writes, exit, pages,
                   DEFAULT_PARAMS, params, ragVars>>

\* Exhausted with the failed page skipped instead of the collection aborted.
ExhaustedSkipsPage ==
    /\ pc = "after_retry"
    /\ ~success
    /\ current_page' = current_page + 1
    /\ pc' = "page_top"
    /\ UNCHANGED <<all_articles, retry_count, success, data, response,
                   collected, df, out_file, writes, exit, trace, pages,
                   DEFAULT_PARAMS, params, ragVars>>

\* Exhausted with run going on to process and save what was accumulated.
ExhaustedStillSaves ==
    /\ pc = "after_retry"
    /\ ~success
    /\ collected' = "False"
    /\ pc' = "process"
    /\ UNCHANGED <<all_articles, current_page, retry_count, success, data,
                   response, df, out_file, writes, exit, trace, pages,
                   DEFAULT_PARAMS, params, ragVars>>

\* collect_data, lines 76-78, and run, lines 124-126: the budget is spent,
\* collect_data returns False and run returns without processing or saving.
Exhausted ==
    /\ pc = "after_retry"
    /\ ~success
    /\ collected' = "False"
    /\ pc' = "done"
    /\ exit' = "normal"
    /\ UNCHANGED <<all_articles, current_page, retry_count, success, data,
                   response, df, out_file, writes, trace, pages,
                   DEFAULT_PARAMS, params, ragVars>>

\* collect_data, lines 80-92: the page was fetched.  A payload that is not a
\* JSON object has no get: the AttributeError of line 80 is outside every try
\* of collect_data and ends the run in main's except (main.py, lines 10-11).
HandlePage ==
    /\ pc = "after_retry"
    /\ success
    /\ IF data.kind # "object"
       THEN /\ pc' = "done"
            /\ exit' = "error"
            /\ UNCHANGED <<all_articles, current_page, collected, pages>>
       ELSE /\ pages' = Append(pages, data)
            /\ all_articles' = IF AfterPage(data) = "empty" THEN all_articles
                               ELSE Extend(all_articles, data)
            /\ IF AfterPage(data) = "more"
               THEN /\ current_page' = current_page + 1
                    /\ pc' = "page_top"
                    /\ UNCHANGED collected
               ELSE /\ collected' = "True"
                    /\ pc' = "process"
                    /\ UNCHANGED current_page
            /\ UNCHANGED exit
    /\ UNCHANGED <<retry_count, success, data, response, df, out_file, writes,
                   trace,
                   DEFAULT_PARAMS, params, ragVars>>

\* run, lines 131-132.
ProcessData ==
    /\ pc = "process"
    /\ df' = process_data(all_articles)
    /\ IF df' = PyNone
       THEN pc' = "done" /\ exit' = "normal"
       ELSE pc' = "save" /\ UNCHANGED exit
    /\ UNCHANGED <<all_articles, current_page, retry_count, success, data,
                   response, collected, out_file, writes, trace, pages,
                   DEFAULT_PARAMS, params, ragVars>>

\* save_data, lines 114-118, and the end of run.
SaveData ==
    /\ pc = "save"
    /\ out_file' = to_csv(df)
    /\ writes' = writes + 1
    /\ pc' = "done"
    /\ exit' = "normal"
    /\ UNCHANGED <<all_articles, current_page, retry_count, success, data,
                   response, collected, df, trace, pages,
                   DEFAULT_PARAMS, params, ragVars>>

\* save_data, line 116, and main.py, lines 8-11: to_csv raises (the path cannot
\* be opened, the disk is full, or the user interrupts the write); the file is
\* as it was or was opened and left incomplete; the exception is not caught in
\* the crawler and ends the run in one of main's except clauses.
SaveRaises ==
    /\ pc = "save"
    /\ out_file' \in {out_file, Truncated}
    /\ writes' = writes + 1
    /\ pc' = "done"
    /\ exit' \in {"error", "interrupted"}
    /\ df' = PyNone
    /\ UNCHANGED <<all_articles, current_page, retry_count, success, data,
                   response, collected, trace, pages,
                   DEFAULT_PARAMS, params, ragVars>>

\* Interrupt with a handler that goes on to save what was collected so far.
InterruptSavesPartial ==
    /\ pc \notin {"done", "process", "save"}
    /\ pc' = "process"
    /\ retry_count' = 0
    /\ success' = FALSE
    /\ data' = PyNone
    /\ response' = NoResponse
    /\ df' = PyNone
    /\ params' = PyNone
    /\ UNCHANGED <<all_articles, current_page, collected, out_file, writes,
                   exit, trace, pages,
                   DEFAULT_PARAMS, ragVars>>

\* main.py, lines 8-9: a KeyboardInterrupt is no Exception, so neither try of
\* the crawler catches it; the frames of run and collect_data are unwound with
\* their locals, main reports the interrupt and returns.
Interrupt ==
    /\ pc # "done"
    /\ pc' = "done"
    /\ exit' = "interrupted"
    /\ retry_count' = 0
    /\ success' = FALSE
    /\ data' = PyNone
    /\ response' = NoResponse
    /\ df' = PyNone
    /\ params' = PyNone
    /\ UNCHANGED <<all_articles, current_page, collected, out_file, writes,
                   trace, pages,
                   DEFAULT_PARAMS, ragVars>>

Next ==
    \/ Run
    \/ PageTop
    \/ RequestSleep
    \/ AttemptRaises
    \/ Request
    \/ HandleData
    \/ RetrySleep
    \/ Exhausted
    \/ HandlePage
    \/ ProcessData
    \/ SaveData
    \/ SaveRaises
    \/ Interrupt

Spec == Init /\ [][Next]_vars

(***************************************************************************)
(* process_data and save_data on their own: the run from the point where   *)
(* collect_data has returned True, for accumulators of every shape.        *)
(***************************************************************************)
\* Region codes: the 18 of the table and some that are not in it.
Codes == DOMAIN REGION_CODES \cup {"", "1120000000", "1120011900", "99"}

RecD == << <<"rltrNm", "R">>, <<"region", "raw">>, <<"lat", "37.5">>,
           <<"atclNo", "1004">> >>
RecE == << <<"tagList", "y">>, <<"cpNm", "z">> >>

\* Records with every code, and records with keys in another order than
\* COLUMNS_TO_SAVE, with keys outside it, with and without 'cortarNo'.
Records ==
    { << <<"cortarNo", c>>, <<"atclNo", "1">> >> : c \in Codes } \cup
    { RecA, RecB, RecC, RecD, RecE }

Accumulators ==
    UNION { [1..n -> Records] : n \in 1..MaxArticles }

\* The state in which collect_data returns True after one page, the last,
\* brought the records arts (lines 84-92).
InitProcess ==
    \E arts \in Accumulators :
        LET page == JsonObject(TRUE, arts, TRUE, FALSE) IN
        /\ pc = "process"
        /\ all_articles = arts
        /\ current_page = 1
        /\ retry_count = 0
        /\ success = TRUE
        /\ data = page
        /\ response = NoResponse
        /\ collected = "True"
        /\ df = PyNone
        /\ out_file = Absent
        /\ writes = 0
        /\ exit = "running"
        /\ trace = <<random_sleep(REQUEST_DELAY), http_get(1, page)>>
        /\ pages = <<page>>
        /\ DEFAULT_PARAMS = ConfiguredParams
        /\ params = PyNone
        /\ RagNotConstructed

NextProcess ==
    \/ ProcessData
    \/ SaveData
    \/ SaveRaises
    \/ Interrupt

SpecProcess == InitProcess /\ [][NextProcess]_vars

(***************************************************************************)
(* Properties.                                                             *)
(***************************************************************************)
\* The positions of trace that are requests for page p.
Gets(p) == { i \in 1..Len(trace) : trace[i].ev = "GET" /\ trace[i].page = p }

\* The requests for page p after which the fetch returned None.
FailedGets(p) == { i \in Gets(p) : ~trace[i].ok }

\* The page numbers that occur in the requests made so far.
RequestedPages == { trace[i].page : i \in { k \in 1..Len(trace) : trace[k].ev = "GET" } }

\* The record lists of the pages ps, one after the other.
RECURSIVE AllBodies(_)
AllBodies(ps) ==
    IF ps = <<>> THEN <<>> ELSE BodyOf(Head(ps)) \o AllBodies(Tail(ps))

\* C1: no page is requested more than MAX_RETRIES (3) times in one run, and
\* when the retry loop of a page is left, either the fetch has succeeded and
\* data is the parsed payload, or the page has failed for good with the whole
\* budget spent.
C1_AtMostThreeAttempts ==
    /\ \A p \in RequestedPages : Cardinality(Gets(p)) <= MAX_RETRIES
    /\ retry_count <= MAX_RETRIES
    /\ pc = "after_retry" =>
         \/ success /\ data # PyNone /\ data.kind \in {"object", "array"}
         \/ ~success /\ retry_count = MAX_RETRIES

\* C1's case: the third request for page 2 has failed and the loop is left.
C1_Witness ==
    /\ pc = "after_retry"
    /\ ~success
    /\ current_page = 2
    /\ Cardinality(FailedGets(2)) = MAX_RETRIES

\* C2: a fetched page with records and a false continuation flag is the last
\* page: its records are at the end of the accumulator, collect_data has
\* returned True, and no page after it is ever requested.
C2_LastPageStops ==
    \A i \in 1..Len(pages) :
        (BodyOf(pages[i]) # <<>> /\ ~MoreOf(pages[i])) =>
            /\ i = Len(pages)
            /\ current_page = i
            /\ collected = "True"
            /\ all_articles = AllBodies(SubSeq(pages, 1, i - 1)) \o pages[i].body
            /\ \A p \in RequestedPages : p <= i

\* C2's case: page 2 came with records and 'more' false, and the run is over.
C2_Witness ==
    /\ pc = "done"
    /\ exit = "normal"
    /\ Len(pages) = 2
    /\ BodyOf(pages[2]) # <<>>
    /\ pages[2].has_more /\ ~pages[2].more

\* C3: a fetched page with an empty record list stops the collection with
\* success whatever its continuation flag says; nothing is appended for it and
\* the accumulator holds exactly the records of the earlier pages.
C3_EmptyPageStops ==
    \A i \in 1..Len(pages) :
        BodyOf(pages[i]) = <<>> =>
            /\ i = Len(pages)
            /\ current_page = i
            /\ collected = "True"
            /\ all_articles = AllBodies(SubSeq(pages, 1, i - 1))
            /\ Len(all_articles) = Len(AllBodies(pages))
            /\ \A p \in RequestedPages : p <= i

\* C3's case: page 2 came empty with 'more' true after a page with records.
C3_Witness ==
    /\ pc = "done"
    /\ exit = "normal"
    /\ Len(pages) = 2
    /\ pages[2].has_body /\ pages[2].body = <<>>
    /\ pages[2].has_more /\ pages[2].more
    /\ Len(all_articles) = 2

\* C4: once three requests for page p have failed, no page after p is ever
\* requested and the cursor stays on p; collect_data never returns True, and
\* it returns False unless the run is interrupted first.  And whenever
\* collect_data has returned False, the budget was spent on the page of the
\* cursor and nothing beyond that page was requested.
C4_ExhaustionAborts ==
    /\ \A p \in RequestedPages :
         Cardinality(FailedGets(p)) = MAX_RETRIES =>
            /\ current_page = p
            /\ \A q \in RequestedPages : q <= p
            /\ collected # "True"
            /\ pc \in {"got_data", "retry_sleep", "after_retry", "done"}
            /\ (pc = "done" /\ exit # "interrupted") => collected = "False"
    /\ collected = "False" =>
            /\ pc = "done"
            /\ Len(pages) = current_page - 1
            /\ \A q \in RequestedPages : q <= current_page

\* C4's case: page 1 was fetched, page 2 failed three times, the run is over.
C4_Witness ==
    /\ pc = "done"
    /\ collected = "False"
    /\ Cardinality(FailedGets(2)) = MAX_RETRIES
    /\ Len(pages) = 1

\* C5: a spent retry budget makes collect_data return False, and main ends
\* normally, not in an except; after that return nothing is processed or
\* written (df is None, the file is as it was before the run), and the
\* accumulator still holds every record of the pages fetched before.
C5_FailureWritesNothing ==
    /\ (pc = "done" /\ ~success /\ retry_count = MAX_RETRIES) =>
            collected = "False"
    /\ collected = "False" =>
            /\ exit = "normal"
            /\ df = PyNone
            /\ writes = 0
            /\ out_file \in {Absent, OldFile}
            /\ all_articles = AllBodies(pages)

\* C5's case: collect_data returned False with records already accumulated.
C5_Witness ==
    /\ collected = "False"
    /\ pc = "done"
    /\ all_articles = <<RecA, RecB>>
    /\ out_file = OldFile

IsGet(e) == e.ev = "GET"

\* The page numbers requested so far, in the order of the requests.
RequestSeq ==
    LET gets == SelectSeq(trace, IsGet) IN [i \in 1..Len(gets) |-> gets[i].page]

\* No attempt has failed: every request returned a payload and no retry delay
\* was slept.
NoFailures ==
    \A i \in 1..Len(trace) : trace[i].ok /\ trace[i] # random_sleep(RETRY_DELAY)

\* The upstream of the two-page scenario.
ScenarioPage1 == JsonObject(TRUE, <<RecA, RecB>>, TRUE, TRUE)
ScenarioPage2 == JsonObject(TRUE, <<RecC>>, TRUE, FALSE)

\* C6: when the upstream answers the first request with a page of 2 records
\* and continuation true and the next with a page of 1 record and continuation
\* false, and nothing fails, then exactly pages 1 and 2 are requested, the
\* accumulator ends with the 3 records in page order, and a run that ends
\* normally has written the file once, with exactly 3 data rows in that order.
C6_TwoPageScenario ==
    (/\ Len(pages) >= 2
     /\ pages[1] = ScenarioPage1
     /\ pages[2] = ScenarioPage2
     /\ NoFailures) =>
        /\ Len(pages) = 2
        /\ RequestSeq = <<1, 2>>
        /\ all_articles = <<RecA, RecB, RecC>>
        /\ (pc = "done" /\ exit = "normal") =>
              /\ writes = 1
              /\ out_file.bom
              /\ out_file.header = <<"atclNo", "atclNm", "region", "prc">>
              /\ out_file.rows =
                   << <<"1001", "Apt-A", <<"Majang-dong">>, "5000">>,
                      <<"1002", "", <<"gita-jiyeok(", "1120099999", ")">>, "">>,
                      <<"1003", "", <<"gita-jiyeok(", "nan", ")">>, "700">> >>

\* C6's case: the scenario has run to its normal end.
C6_Witness ==
    /\ pc = "done"
    /\ exit = "normal"
    /\ pages = <<ScenarioPage1, ScenarioPage2>>
    /\ NoFailures
    /\ Len(out_file.rows) = 3

\* A response with status 200 whose body holds the bot-challenge marker.
MarkerResponse == response.ok /\ response.status = 200 /\ response.marker

\* C7: the fetch of a status-200 response with the bot-challenge marker
\* returns None whatever the body would parse to, and the step that handles
\* it adds exactly 1 to retry_count, leaves success false, goes to the retry
\* delay and appends nothing (unless the run is interrupted there).
C7_MarkerIsFailedAttempt ==
    [][ (pc = "got_data" /\ MarkerResponse) =>
          /\ data = PyNone
          /\ all_articles' = all_articles
          /\ pages' = pages
          /\ trace' = trace
          /\ exit' # "interrupted" =>
                /\ retry_count' = retry_count + 1
                /\ ~success'
                /\ pc' = "retry_sleep" ]_vars

\* C7's case: a marker response whose body would parse to a page with records.
C7_Witness ==
    /\ pc = "got_data"
    /\ MarkerResponse
    /\ response.json = LastPage
    /\ data = PyNone
    /\ retry_count = 1

\* The three conditions of a successful fetch.
GoodResponse ==
    /\ response.ok
    /\ response.status = 200
    /\ ~response.marker
    /\ response.json.kind # "error"

\* C8: when a fetch has returned, its result is the parsed body exactly when
\* the transport did not fail, the status is 200, the marker is absent and
\* parsing did not raise; in every other case it is None; and the fetch
\* returned to collect_data, no exception left it.
C8_FetchOutcome ==
    pc = "got_data" =>
        /\ GoodResponse => data = PyValue(response.json)
        /\ ~GoodResponse => data = PyNone
        /\ data # PyNone => GoodResponse
        /\ exit = "running"

\* C8's case: a good response was parsed to a page.
C8_Witness ==
    /\ pc = "got_data"
    /\ GoodResponse
    /\ data = response.json
    /\ data.kind = "object"
    /\ data.body = <<RecA, RecB>>

\* C9: every record that has a region code gets a region name that is not
\* empty: the table's name for one of the 18 codes of the table, and for any
\* other code the label '기타지역(<code>)', which holds the code.
C9_RegionLookupTotal ==
    /\ Cardinality(DOMAIN REGION_CODES) = 18
    /\ pc = "save" => df # PyNone
    /\ df # PyNone =>
         \A i \in 1..Len(all_articles) :
            HasKey(all_articles[i], "cortarNo") =>
               LET c == Get(all_articles[i], "cortarNo")
                   r == df.rows[i]["region"] IN
               /\ r # <<>>
               /\ \E k \in 1..Len(r) : r[k] # ""
               /\ c \in DOMAIN REGION_CODES => r = <<REGION_CODES[c]>>
               /\ c \notin DOMAIN REGION_CODES =>
                     r = <<"gita-jiyeok(", c, ")">> /\ c \in SeqToSet(r)

\* C9's case: a code of the table and a code outside it were looked up.
C9_Witness ==
    /\ pc = "save"
    /\ Len(all_articles) = 2
    /\ df.rows[1]["region"] = <<"Yongdap-dong">>
    /\ df.rows[2]["region"] = <<"gita-jiyeok(", "1120011900", ")">>

\* The position of column c in COLUMNS_TO_SAVE.
ColumnIndex(c) == CHOOSE k \in 1..Len(COLUMNS_TO_SAVE) : COLUMNS_TO_SAVE[k] = c

\* Every key of every record of arts.
AllKeys(arts) == UNION { SeqToSet(Keys(arts[i])) : i \in 1..Len(arts) }

\* C10: for a non-empty accumulator process_data returns a table (no error)
\* whose columns are columns of COLUMNS_TO_SAVE in the order of that list:
\* exactly the listed columns that the data has, and 'region'; keys outside
\* the list are dropped and listed columns the data lacks are left out.
C10_ColumnsProjected ==
    /\ (all_articles # <<>> /\ pc = "save") => df # PyNone
    /\ df # PyNone =>
         /\ SeqToSet(df.columns) \subseteq SeqToSet(COLUMNS_TO_SAVE)
         /\ \A i, j \in 1..Len(df.columns) :
               i < j => ColumnIndex(df.columns[i]) < ColumnIndex(df.columns[j])
         /\ SeqToSet(df.columns) =
               (AllKeys(all_articles) \cup {"region"}) \cap SeqToSet(COLUMNS_TO_SAVE)
         /\ Len(df.rows) = Len(all_articles)

\* C10's case: the data has the keys prc, atclNo, cortarNo, tagList in that
\* order; the table has atclNo, region, prc.
C10_Witness ==
    /\ pc = "save"
    /\ all_articles = <<RecC, RecB>>
    /\ df.columns = <<"atclNo", "region", "prc">>

\* A sleep of the request delay, with the bounds of config.py written out.
IsRequestDelay(e) == e.ev = "sleep" /\ e.lo = 3 /\ e.hi = 5

\* C11: every request, first attempt or retry, failed or not, comes directly
\* after one sleep of 3 to 5 seconds, and that sleep is the only one of its
\* kind since the request before: a request delay is either the last event so
\* far or directly followed by the request it was slept for.
C11_RequestDelayBeforeEachRequest ==
    /\ REQUEST_DELAY = <<3, 5>>
    /\ \A i \in 1..Len(trace) :
         /\ trace[i].ev = "GET" => (i > 1 /\ IsRequestDelay(trace[i - 1]))
         /\ IsRequestDelay(trace[i]) =>
               (i = Len(trace) \/ trace[i + 1].ev = "GET")
    /\ pc = "request" => (trace # <<>> /\ IsRequestDelay(trace[Len(trace)]))
    /\ pc = "got_data" => trace[Len(trace)].ev = "GET"

\* C11's case: a first attempt that failed and the retry, each with its delay.
C11_Witness ==
    /\ pc = "got_data"
    /\ Len(trace) = 5
    /\ IsRequestDelay(trace[1]) /\ trace[2].ev = "GET" /\ ~trace[2].ok
    /\ IsRequestDelay(trace[4]) /\ trace[5].ev = "GET" /\ trace[5].ok

\* No record of arts has the key 'cortarNo'.
NoRegionCode(arts) == \A i \in 1..Len(arts) : ~HasKey(arts[i], "cortarNo")

\* C12: when no accumulated record has 'cortarNo', process_data still returns
\* the table: it has the column 'region', every row holds the same sentinel
\* '지역정보없음' there, and the columns are the projection on COLUMNS_TO_SAVE.
C12_SentinelWithoutRegionCode ==
    (all_articles # <<>> /\ NoRegionCode(all_articles)) =>
        /\ pc = "save" => df # PyNone
        /\ df # PyNone =>
             /\ "region" \in SeqToSet(df.columns)
             /\ Len(df.rows) = Len(all_articles)
             /\ \A i \in 1..Len(df.rows) :
                   df.rows[i]["region"] = <<"jiyeok-jeongbo-eopseum">>
             /\ df.columns =
                   Filter(COLUMNS_TO_SAVE, AllKeys(all_articles) \cup {"region"})

\* C12's case: two records without 'cortarNo', one with a 'region' of its own.
C12_Witness ==
    /\ pc = "save"
    /\ all_articles = <<RecC, RecD>>
    /\ df.rows[1]["region"] = NoRegionInfo
    /\ df.rows[2]["region"] = NoRegionInfo

\* C13: an interrupt or an exception that leaves run() ends in main's except
\* clauses and main returns: the run is over exactly when main has ended, in
\* one of the four ways.  While collect_data has not returned, and after a run
\* that was cut short before it returned, save_data was never called, the file
\* is as it was before the run and no table was made.
C13_AbortBeforeCollectionEndWritesNothing ==
    /\ exit \in {"running", "normal", "interrupted", "error"}
    /\ (exit # "running") <=> (pc = "done")
    /\ collected = "pending" =>
          /\ writes = 0
          /\ out_file \in {Absent, OldFile}
          /\ df = PyNone
    /\ (pc = "done" /\ collected = "pending") => exit \in {"interrupted", "error"}

\* C13's case: the user interrupts after a failed request for page 2, when
\* page 1 has put records in the accumulator and a file of an earlier run is
\* on disk.
C13_Witness ==
    /\ pc = "done"
    /\ exit = "interrupted"
    /\ collected = "pending"
    /\ all_articles = <<RecA, RecB>>
    /\ current_page = 2
    /\ trace[Len(trace)].ev = "GET" /\ ~trace[Len(trace)].ok
    /\ out_file = OldFile

\* C14: save_data is called at most once in a run, and only from the position
\* after process_data, with collect_data having returned True and df being
\* the table process_data makes of the accumulator; and once collect_data
\* has returned (processing, saving or the end of the run), no sleep or
\* request is made and the accumulator and the cursor do not change.
C14_OneWayFlow ==
    [][ /\ writes' # writes =>
              /\ writes = 0 /\ writes' = 1
              /\ pc = "save"
              /\ collected = "True"
              /\ df # PyNone /\ df = process_data(all_articles)
        /\ out_file' # out_file => writes' = writes + 1
        /\ pc \in {"process", "save", "done"} =>
              /\ trace' = trace
              /\ all_articles' = all_articles
              /\ current_page' = current_page
              /\ pages' = pages
              /\ pc' \in {"save", "done"} ]_vars

\* C14's case: two pages were collected, processed and written, once.
C14_Witness ==
    /\ pc = "done"
    /\ exit = "normal"
    /\ writes = 1
    /\ Len(pages) = 2
    /\ out_file = to_csv(df)

\* C15 as claimed: the cursor starts at 1, a step changes it by exactly 1 or
\* not at all, a step that handles no fetched page (a failed attempt among
\* them) leaves it alone, and every step that handles a fetched page adds 1.
C15_CursorAfterEachPage ==
    [][ /\ pc = "run" => current_page = 1
        /\ current_page' \in {current_page, current_page + 1}
        /\ pages' = pages => current_page' = current_page
        /\ pages' # pages => current_page' = current_page + 1 ]_vars

\* C15, amended: the cursor starts at 1, a step changes it by exactly 1 or not
\* at all, a step that handles no fetched page leaves it alone, and the step
\* that handles a fetched page adds 1 exactly when the page has records and a
\* true continuation flag; the page that ends the collection leaves the cursor
\* on its own number.
C15_CursorAfterContinuedPage ==
    [][ /\ pc = "run" => current_page = 1
        /\ current_page' \in {current_page, current_page + 1}
        /\ pages' = pages => current_page' = current_page
        /\ pages' # pages =>
              current_page' = IF Continues(data) THEN current_page + 1
                              ELSE current_page ]_vars

\* C15's case: page 2 was fetched with records and ended the collection; the
\* cursor is still 2.
C15_Witness ==
    /\ pc = "process"
    /\ Len(pages) = 2
    /\ BodyOf(pages[2]) # <<>>
    /\ ~Continues(pages[2])
    /\ current_page = 2

\* s is an initial part of t.
IsPrefix(s, t) == Len(s) <= Len(t) /\ SubSeq(t, 1, Len(s)) = s

\* C16: the accumulator is empty when the run starts; every step keeps what
\* it holds, in place and in order, and can only add at the end; and from the
\* return of collect_data on (processing, saving, the end of the run) no step
\* changes it.
C16_AccumulatorGrowsThenFrozen ==
    [][ /\ pc = "run" => all_articles = <<>>
        /\ IsPrefix(all_articles, all_articles')
        /\ collected # "pending" => all_articles' = all_articles ]_vars

\* C16's case: the records of two pages were accumulated, then processed and
\* written, and the accumulator still holds them in page order.
C16_Witness ==
    /\ pc = "done"
    /\ writes = 1
    /\ exit = "normal"
    /\ all_articles = <<RecA, RecB, RecC>>

\* A sleep of the retry delay, with the bounds of config.py written out.
IsRetryDelay(e) == e.ev = "sleep" /\ e.lo = 5 /\ e.hi = 10

\* The retry delays slept so far.
RetrySleeps == SelectSeq(trace, IsRetryDelay)

\* What follows a counted failure when the retry delay comes next: exactly
\* one sleep of 5 to 10 seconds, slept nowhere else, and after it the same
\* page is attempted again if the budget is not spent (the collection is given
\* up otherwise).  Steps that interrupt the run are left aside.
RetryDelayThenSamePage ==
    /\ (pc = "retry_sleep" /\ exit' # "interrupted") =>
          /\ trace' = Append(trace, random_sleep(RETRY_DELAY))
          /\ IsRetryDelay(trace'[Len(trace')])
          /\ current_page' = current_page
          /\ retry_count' = retry_count
          /\ pc' = IF retry_count < MAX_RETRIES THEN "req_sleep"
                   ELSE "after_retry"
    /\ Len(SelectSeq(trace', IsRetryDelay)) # Len(RetrySleeps) =>
          /\ pc = "retry_sleep"
          /\ Len(SelectSeq(trace', IsRetryDelay)) = Len(RetrySleeps) + 1
    /\ (pc = "req_sleep" /\ pc' = "request") => current_page' = current_page
    /\ (pc = "request" /\ exit' # "interrupted") =>
          trace' = Append(trace, http_get(current_page, data'))

Requests == SelectSeq(trace, IsGet)

\* C18: the first request is for page 1; a request after a failed one is for
\* the same page, a request after a successful one is for the next page, and
\* that page p was then fetched with a non-empty record list and a true
\* continuation flag; so the requested numbers never skip one and never go
\* back to a page that was fetched.
C18_PagesAscendWithoutGaps ==
    /\ Requests # <<>> => Requests[1].page = 1
    /\ \A i \in 1..(Len(Requests) - 1) :
         LET p == Requests[i].page
             q == Requests[i + 1].page
         IN  /\ q \in {p, p + 1}
             /\ q = p => ~Requests[i].ok
             /\ q = p + 1 =>
                   /\ Requests[i].ok
                   /\ Len(pages) >= p
                   /\ Continues(pages[p])
    /\ \A p \in RequestedPages :
         /\ \A q \in 1..p : q \in RequestedPages
         /\ Cardinality({ i \in Gets(p) : trace[i].ok }) <= 1

\* C18's case: page 1 failed once and was fetched at the second attempt with
\* records and a true flag, then page 2 failed once and was requested again.
C18_Witness ==
    /\ RequestSeq = <<1, 1, 2, 2>>
    /\ ~Requests[1].ok /\ Requests[2].ok /\ ~Requests[3].ok
    /\ Continues(pages[1])

\* What collect_data does with a fetched page, whatever the number of failed
\* attempts before it: the records are appended once, then the collection
\* goes on to the next page or ends with success.
PageHandledOnce ==
    /\ pages' = Append(pages, data)
    /\ all_articles' = all_articles \o BodyOf(data)
    /\ IF Continues(data)
       THEN /\ current_page' = current_page + 1
            /\ pc' = "page_top"
            /\ collected' = collected
       ELSE /\ current_page' = current_page
            /\ pc' = "process"
            /\ collected' = "True"

\* C19: an attempt that succeeds after one or two failed ones ends the retry
\* loop of the page; the accumulator changes only when a fetched page is
\* handled, so failed attempts append nothing and it holds each fetched
\* page's records once; and a fetched page is handled by the same rules with
\* and without failed attempts before it.
C19_TransientFailureRecovered ==
    [][ /\ all_articles = AllBodies(pages)
        /\ (pc = "got_data" /\ data # PyNone /\ exit' # "interrupted") =>
              /\ pc' = "after_retry"
              /\ success'
              /\ all_articles' = all_articles
        /\ all_articles' # all_articles => (pc = "after_retry" /\ success)
        /\ ( /\ pc = "after_retry" /\ success /\ data.kind = "object"
             /\ exit' # "interrupted" ) => PageHandledOnce ]_vars

\* C19's case: page 1 failed twice and was fetched at the third attempt; its
\* two records are in the accumulator once and the collection is at page 2.
C19_Witness ==
    /\ pc = "page_top"
    /\ current_page = 2
    /\ Cardinality(FailedGets(1)) = 2
    /\ Cardinality(Gets(1)) = 3
    /\ pages = <<ScenarioPage1>>
    /\ all_articles = <<RecA, RecB>>

\* Row r of the table frame is the row of record rec: every column but the
\* derived region holds the record's value for it, NaN if the record has
\* none, and the region is derived from the record's own region code.
RowOfRecord(frame, r, rec) ==
    \A k \in 1..Len(frame.columns) :
       LET c == frame.columns[k] IN
       IF c = "region"
       THEN HasKey(rec, "cortarNo") =>
               frame.rows[r][c] = get_region_name(Get(rec, "cortarNo"))
       ELSE frame.rows[r][c] = IF HasKey(rec, c) THEN Get(rec, c) ELSE NaN

\* C20: once collect_data has returned True, the accumulator is the record
\* lists of the fetched pages one after the other, page 1 first, each in its
\* own order; and the table of process_data has as many rows as there are
\* accumulated records, row i being the row of record i.
C20_AccumulatorAndTableInPageOrder ==
    collected = "True" =>
       /\ all_articles = AllBodies(pages)
       /\ \A p \in 1..Len(pages) :
             \E i \in Gets(p) : trace[i].ok
       /\ (pc = "save" \/ df # PyNone) =>
             /\ df # PyNone
             /\ Len(df.rows) = Len(all_articles)
             /\ \A i \in 1..Len(all_articles) :
                   RowOfRecord(df, i, all_articles[i])

\* C20's case: two pages with two records and one record were fetched and
\* the table has the three rows in that order.
C20_Witness ==
    /\ pc = "save"
    /\ collected = "True"
    /\ pages = <<ScenarioPage1, ScenarioPage2>>
    /\ all_articles = <<RecA, RecB, RecC>>
    /\ Len(df.rows) = 3
    /\ df.rows[1]["atclNo"] = Get(RecA, "atclNo")
    /\ df.rows[2]["atclNo"] = Get(RecB, "atclNo")
    /\ df.rows[3]["atclNo"] = Get(RecC, "atclNo")

\* A step of get_real_estate_data: its sleep, or its request up to the return.
FetchStep ==
    \/ pc = "req_sleep" /\ pc' = "request"
    \/ pc = "request" /\ pc' = "got_data"

\* C21: a step of the single page fetch, whether the request then succeeds or
\* fails, leaves the accumulator, the page cursor and DEFAULT_PARAMS as they
\* were (and with them the retry state, the table and the output file); what
\* it does is one sleep or one request, for the page of the cursor.
\* DEFAULT_PARAMS is the configured dict in every state and never has a page.
C21_FetchTouchesNoSharedState ==
    [][ /\ DEFAULT_PARAMS = ConfiguredParams
        /\ FetchStep =>
              /\ all_articles' = all_articles
              /\ current_page' = current_page
              /\ DEFAULT_PARAMS' = DEFAULT_PARAMS
              /\ "page" \notin DOMAIN DEFAULT_PARAMS'
              /\ UNCHANGED <<retry_count, success, collected, df, out_file,
                             writes, exit, pages>>
              /\ Len(trace') = Len(trace) + 1
              /\ SubSeq(trace', 1, Len(trace)) = trace
              /\ trace'[Len(trace')] \in
                    { random_sleep(REQUEST_DELAY),
                      http_get(current_page, data') } ]_vars

\* C21's case: the fetch of page 2 has failed after page 1 was fetched; the
\* accumulator holds page 1, the cursor is 2 and DEFAULT_PARAMS is as
\* configured.
C21_Witness ==
    /\ pc = "got_data"
    /\ data = PyNone
    /\ current_page = 2
    /\ all_articles = <<RecA, RecB>>
    /\ trace[Len(trace)] = http_get(2, PyNone)
    /\ DEFAULT_PARAMS = ConfiguredParams

(***************************************************************************)
(* Properties of the question-answering system.                            *)
(***************************************************************************)
\* A step that is a call of ask or test_retrieval.
QuestionStep ==
    /\ rpc = "idle" /\ rpc' = "idle"
    /\ outcome' # outcome
    /\ outcome'.call \in {"ask", "test_retrieval"}

\* C22: rag_chain is unset until a setup completes, and only the completion
\* of a setup sets it.  A call of ask or test_retrieval while it is unset
\* raises ValueError and forwards nothing; once it is set, the question is
\* forwarded to that chain.  Either way the call changes nothing of the
\* system or of the files.
C22_QuestionNeedsCompletedSetup ==
    [][ /\ rag_chain' # rag_chain =>
              (rpc = "chain" /\ rpc' = "idle" /\ rag_chain' # PyNone)
        /\ QuestionStep =>
              /\ UNCHANGED <<force_rebuild, documents, csv_file, cache,
                             document_loader, text_processor,
                             vector_store_manager, rag_chain, calls>>
              /\ rag_chain = PyNone =>
                    /\ outcome'.raised = "ValueError"
                    /\ outcome'.forwarded = PyNone
              /\ rag_chain # PyNone =>
                    /\ outcome'.raised = "none"
                    /\ outcome'.forwarded # PyNone
                    /\ outcome'.forwarded.chain = rag_chain
                    /\ outcome'.forwarded.question \in Questions ]_vars

\* C22's case: a setup was begun and failed on the missing CSV file, then ask
\* raised ValueError; the manager and the loader of the failed setup are as
\* the setup left them.
C22_Witness ==
    /\ outcome = [call |-> "ask", raised |-> "ValueError", forwarded |-> PyNone]
    /\ rag_chain = PyNone
    /\ vector_store_manager = [vectorstore |-> PyNone]
    /\ document_loader # PyNone
    /\ calls = <<"load_documents">>

\* The library calls of a forced rebuild up to the built store, when a cache
\* was there (had_cache) and when not.
RebuildCalls(had_cache) ==
    <<"load_documents", "split_documents">>
       \o (IF had_cache THEN <<"rmtree">> ELSE <<>>)
       \o <<"from_documents", "save_local">>

\* C23: a setup with force_rebuild takes the branch that loads and splits the
\* documents even if a cache exists, never calls load_local, deletes an
\* existing cache before it builds the store, and builds the store (and the
\* new cache) from the split documents of the CSV file.  A setup without
\* force_rebuild that finds a cache calls load_local and nothing else: the
\* store is the cached index and the document loader is not called.
C23_ForceRebuildIgnoresCache ==
    [][ /\ force_rebuild =>
              (rpc # "load" /\ "load_local" \notin SeqToSet(calls))
        /\ (rpc = "idle" /\ rpc' # "idle") =>
              rpc' = IF force_rebuild' \/ cache = PyNone THEN "docs" ELSE "load"
        /\ (rpc = "store" /\ force_rebuild) =>
              /\ documents = Split(Loaded(csv_file))
              /\ calls' = RebuildCalls(cache # PyNone)
              /\ vector_store_manager'.vectorstore =
                    Store(documents.docs, "documents")
              /\ cache' = Saved(documents.docs)
              /\ rpc' = "chain"
        /\ rpc = "load" =>
              /\ ~force_rebuild /\ cache # PyNone /\ calls = <<>>
              /\ calls' = <<"load_local">>
              /\ cache' = cache
              /\ document_loader' = document_loader
              /\ rpc' = "chain" =>
                    vector_store_manager'.vectorstore =
                       Store(cache.index, "cache")
        /\ (calls # <<>> /\ calls[1] = "load_local") =>
              "load_documents" \notin SeqToSet(calls) ]_vars

\* C23's case: a forced rebuild found a cache, loaded and split the two rows
\* of the CSV file, deleted the cache and built the store from the documents.
C23_Witness ==
    /\ rpc = "chain"
    /\ force_rebuild
    /\ calls = RebuildCalls(TRUE)
    /\ Len(documents.docs) = 2
    /\ vector_store_manager.vectorstore = Store(documents.docs, "documents")
    /\ cache = Saved(documents.docs)

\* A step in which load_or_create_vectorstore runs with the argument d (the
\* call of setup's cache branch passes none) and raises exc or returns, as
\* the code's three ways out describe it: the cache was loaded; or there was
\* no cache or it did not load, and the store was created from d and saved;
\* or there was nothing to create it from.
LoadOrCreateOutcome(d, exc) ==
    LET vs      == vector_store_manager.vectorstore
        vs2     == vector_store_manager'.vectorstore
        tried   == "load_local" \in SeqToSet(calls')
        loaded  == /\ cache # PyNone
                   /\ exc = "none"
                   /\ vs2 = Store(cache.index, "cache")
                   /\ cache' = cache
                   /\ "from_documents" \notin SeqToSet(calls')
        created == /\ d # PyNone
                   /\ exc = "none"
                   /\ vs2 = Store(d.docs, "documents")
                   /\ cache' = Saved(d.docs)
                   /\ "from_documents" \in SeqToSet(calls')
        nothing == /\ d = PyNone
                   /\ exc = "ValueError"
                   /\ vs2 = vs
                   /\ cache' = cache
    IN  /\ loaded \/ created \/ nothing
        /\ tried <=> cache # PyNone
        /\ (cache # PyNone \/ d # PyNone) =>
              (exc = "none" \/ (cache # PyNone /\ d = PyNone))

\* The step is the call of load_or_create_vectorstore made on the manager.
DirectCall ==
    /\ outcome'.call = "load_or_create_vectorstore"
    /\ <<cache, vector_store_manager, calls, outcome>>' #
          <<cache, vector_store_manager, calls, outcome>>

\* C24, as stated: load_or_create_vectorstore loads the cache when there is
\* one and creates the store otherwise, falling back to creation from the
\* documents when the cache does not load; and in setup's cache branch, where
\* no documents are passed, a cache that does not load makes setup raise
\* ValueError and leaves the system with no vectorstore and no chain.
C24_FailedCacheLoadLeavesNoChain ==
    [][ /\ DirectCall => LoadOrCreateOutcome(outcome'.argument, outcome'.raised)
        /\ rpc = "load" =>
              /\ LoadOrCreateOutcome(PyNone,
                    IF rpc' = "chain" THEN "none" ELSE outcome'.raised)
              /\ rpc' = "idle" =>
                    /\ outcome' = [call |-> "setup", raised |-> "ValueError",
                                   forwarded |-> PyNone]
                    /\ vector_store_manager'.vectorstore = PyNone
                    /\ rag_chain' = PyNone ]_vars

\* C24, amended: the same, except that the setup that raises builds no chain
\* and leaves rag_chain as it was before the call: unset on a system that was
\* never set up, the chain of the last completed setup otherwise.
C24_FailedCacheLoadBuildsNoChain ==
    [][ /\ DirectCall => LoadOrCreateOutcome(outcome'.argument, outcome'.raised)
        /\ rpc = "load" =>
              /\ LoadOrCreateOutcome(PyNone,
                    IF rpc' = "chain" THEN "none" ELSE outcome'.raised)
              /\ rpc' = "idle" =>
                    /\ outcome' = [call |-> "setup", raised |-> "ValueError",
                                   forwarded |-> PyNone]
                    /\ vector_store_manager'.vectorstore = PyNone
                    /\ rag_chain' = rag_chain ]_vars

\* C24's case: a system whose setup had completed was set up again without
\* force_rebuild; the cache did not load, setup raised ValueError, the new
\* manager has no vectorstore and the chain of the first setup is still set.
C24_Witness ==
    /\ rpc = "idle"
    /\ outcome = [call |-> "setup", raised |-> "ValueError",
                  forwarded |-> PyNone]
    /\ calls = <<"load_local">>
    /\ cache # PyNone
    /\ vector_store_manager = [vectorstore |-> PyNone]
    /\ rag_chain # PyNone

\* C30: within a setup the cache changes only in the step that builds the
\* store, which comes after the documents of the CSV file were loaded and
\* split; a setup that raises in loading (the file is missing) or splitting
\* leaves the cache and rag_chain as they were when it began, and a chain
\* that is set takes the next question.
C30_CacheClearedOnlyAfterDocuments ==
    [][ /\ (rpc' # "idle" \/ rpc # "idle") /\ cache' # cache =>
              /\ rpc = "store"
              /\ SubSeq(calls, 1, 2) = <<"load_documents", "split_documents">>
              /\ documents = Split(Loaded(csv_file))
        /\ rpc \in {"docs", "split"} =>
              /\ cache' = cache
              /\ rag_chain' = rag_chain
              /\ rpc' = "idle" =>
                    outcome'.raised \in {"FileNotFoundError", "Exception"}
        /\ (rpc = "idle" /\ rpc' # "idle") =>
              (cache' = cache /\ rag_chain' = rag_chain)
        /\ (QuestionStep /\ rag_chain # PyNone /\ outcome'.call = "ask") =>
              /\ outcome'.raised = "none"
              /\ outcome'.forwarded.chain = rag_chain ]_vars

\* C30's case: the first setup loaded the cache and built the chain; a forced
\* rebuild then failed on the missing CSV file; the cache is still on disk
\* and ask has forwarded a question to the chain of the first setup.
C30_Witness ==
    /\ rpc = "idle"
    /\ csv_file = CsvMissing
    /\ calls = <<"load_documents">>
    /\ cache # PyNone
    /\ vector_store_manager = [vectorstore |-> PyNone]
    /\ rag_chain = [retriever |-> Store(cache.index, "cache")]
    /\ outcome.call = "ask"
    /\ outcome.raised = "none"
    /\ outcome.forwarded.chain = rag_chain

(***************************************************************************)
(* Properties of the crawler, continued.                                   *)
(***************************************************************************)
\* C25: the cursor moves only to the top of the page loop, where the retry
\* counter is set to 0 before the first attempt; the counter then only counts
\* up by 1, on the page of the cursor, and holds every failed request of that
\* page; the collection is given up only with the counter at 3.  So each of
\* the n pages requested has its own 3 attempts, 3n requests at most.
C25_RetryBudgetPerPage ==
    [][ /\ current_page' # current_page => pc' = "page_top"
        /\ (pc = "page_top" /\ exit' # "interrupted") =>
              (retry_count' = 0 /\ ~success' /\ pc' = "req_sleep")
        /\ retry_count' # retry_count =>
              \/ retry_count' = 0
              \/ /\ retry_count' = retry_count + 1
                 /\ current_page' = current_page
                 /\ pc \in {"req_sleep", "got_data"}
        /\ (pc = "after_retry" /\ ~success) => retry_count = MAX_RETRIES
        /\ (exit = "running" /\ pc \notin {"run", "page_top"}) =>
              Cardinality(FailedGets(current_page)) <=
                 retry_count + (IF pc = "got_data" /\ data = PyNone THEN 1 ELSE 0)
        /\ Len(Requests) <= MAX_RETRIES * Cardinality(RequestedPages) ]_vars

\* C25's case: page 1 was fetched at its third attempt, and page 2 still had
\* three attempts, all failed: six requests for two pages.
C25_Witness ==
    /\ RequestSeq = <<1, 1, 1, 2, 2, 2>>
    /\ pc = "after_retry"
    /\ ~success
    /\ retry_count = MAX_RETRIES
    /\ Cardinality(FailedGets(1)) = 2
    /\ Cardinality(FailedGets(2)) = 3

\* collect_data ends with success on the page of the cursor, the accumulator
\* extended by recs.
StopsWithSuccess(recs) ==
    /\ all_articles' = all_articles \o recs
    /\ collected' = "True"
    /\ pc' = "process"
    /\ current_page' = current_page
    /\ retry_count' = retry_count
    /\ trace' = trace

\* C26: a parsed payload (a JSON object) without 'body', or with records but
\* without 'more', is a successful attempt: the retry counter is not
\* incremented and the retry loop is left.  Without 'body' the collection
\* then stops with success and appends nothing, as for an empty page; with
\* records and without 'more' it appends the records and stops with success,
\* as for a last page.  No further request is made.
C26_MissingFieldsEndCollection ==
    [][ /\ ( /\ pc = "got_data" /\ data.kind = "object"
             /\ (~data.has_body \/ ~data.has_more)
             /\ exit' # "interrupted" ) =>
              /\ success'
              /\ retry_count' = retry_count
              /\ pc' = "after_retry"
        /\ ( /\ pc = "after_retry" /\ success /\ data.kind = "object"
             /\ exit' # "interrupted" ) =>
              /\ ~data.has_body => StopsWithSuccess(<<>>)
              /\ (data.has_body /\ data.body # <<>> /\ ~data.has_more) =>
                    StopsWithSuccess(data.body)
        /\ collected = "True" => trace' = trace ]_vars

\* C26's case: the first page had two records and no 'more'; the records are
\* accumulated, one request was made and the collection ended with success.
C26_Witness ==
    /\ pc = "process"
    /\ collected = "True"
    /\ pages = <<JsonObject(TRUE, <<RecA, RecB>>, FALSE, FALSE)>>
    /\ all_articles = <<RecA, RecB>>
    /\ RequestSeq = <<1>>
    /\ trace[Len(trace)].ok

\* C27: the Writer is invoked, and the output file changed, only after
\* collect_data returned True with a non-empty accumulator; a run that ends
\* normally has invoked it exactly then.  After a successful collection with
\* an empty accumulator (the first page was empty) there is no table, the
\* Writer is not invoked and the file is as it was before the run.
C27_WrittenIffRecordsCollected ==
    /\ (writes > 0 \/ out_file \notin {Absent, OldFile}) =>
          (collected = "True" /\ all_articles # <<>>)
    /\ (pc = "done" /\ exit = "normal") =>
          /\ writes = 1 <=> (collected = "True" /\ all_articles # <<>>)
          /\ writes = 1 => out_file = to_csv(process_data(all_articles))
    /\ (collected = "True" /\ all_articles = <<>>) =>
          /\ df = PyNone
          /\ pc # "save"
          /\ writes = 0
          /\ out_file \in {Absent, OldFile}

\* C27's case: the first page was empty, the run ended normally, the Writer
\* was not invoked and the old output file is still there.
C27_Witness ==
    /\ pc = "done"
    /\ exit = "normal"
    /\ collected = "True"
    /\ Len(pages) = 1
    /\ BodyOf(pages[1]) = <<>>
    /\ all_articles = <<>>
    /\ writes = 0
    /\ out_file = OldFile

\* Some record of arts has 'cortarNo' and some record has not.
MixedRegionCodes(arts) ==
    /\ \E i \in 1..Len(arts) : HasKey(arts[i], "cortarNo")
    /\ \E i \in 1..Len(arts) : ~HasKey(arts[i], "cortarNo")

\* C29: when some accumulated records have 'cortarNo' and others lack it,
\* process_data returns the table; no row's region is the sentinel
\* '지역정보없음' and none is empty; a record with a code of the table has the
\* table's name, and a record without the field has the fallback label made
\* from the missing value, '기타지역(nan)'.
C29_MixedRegionCodesUseFallback ==
    (all_articles # <<>> /\ MixedRegionCodes(all_articles)) =>
        /\ pc = "save" => df # PyNone
        /\ df # PyNone =>
             /\ Len(df.rows) = Len(all_articles)
             /\ \A i \in 1..Len(all_articles) :
                   LET r == df.rows[i]["region"] IN
                   /\ r # NoRegionInfo
                   /\ \E k \in 1..Len(r) : r[k] # ""
                   /\ IF HasKey(all_articles[i], "cortarNo")
                      THEN Get(all_articles[i], "cortarNo")
                              \in DOMAIN REGION_CODES =>
                           r = <<REGION_CODES[Get(all_articles[i], "cortarNo")]>>
                      ELSE r = <<"gita-jiyeok(", "nan", ")">>

\* C29's case: a record of Majang-dong and a record without 'cortarNo'.
C29_Witness ==
    /\ pc = "save"
    /\ all_articles = <<RecA, RecC>>
    /\ df.rows[1]["region"] = <<"Majang-dong">>
    /\ df.rows[2]["region"] = <<"gita-jiyeok(", "nan", ")">>

(***************************************************************************)
(* collect_data alone, with every request and every sleep returning: each  *)
(* step that can be taken is taken, and nothing interrupts the run.        *)
(***************************************************************************)
NextCollect ==
    \/ Run
    \/ PageTop
    \/ RequestSleep
    \/ AttemptRaises
    \/ Request
    \/ HandleData
    \/ RetrySleep
    \/ Exhausted
    \/ HandlePage

SpecCollect == Init /\ [][NextCollect]_vars /\ WF_vars(NextCollect)

\* collect_data has been left: it returned True or False, or raised.
CollectDataLeft == collected # "pending" \/ exit = "error"

\* collect_data is in the retry loop of the page of the cursor.
InRetryLoop == pc \in {"req_sleep", "request", "got_data", "retry_sleep"}

\* C28: with every request and sleep returning, the retry loop of a page is
\* always left, after at most 3 requests for the page, and collect_data is
\* eventually left, the upstream of the model ending its pages by an empty
\* page, a false flag, or failing 3 times.  It returns True only after a
\* fetched page that was empty or had no true flag, and False only with the
\* retry counter at 3.  There is no limit on the cursor: after a page with
\* records and a true flag the next page is always started, whatever the page
\* number, so collect_data does not return while such pages keep coming.
C28_CollectionTerminatesOnlyForCause ==
    /\ <>CollectDataLeft
    /\ InRetryLoop ~> (pc = "after_retry" \/ CollectDataLeft)
    /\ [](\A p \in RequestedPages : Cardinality(Gets(p)) <= MAX_RETRIES)
    /\ [](collected = "True" =>
             (pages # <<>> /\ ~Continues(pages[Len(pages)])))
    /\ [](collected = "False" => (~success /\ retry_count = MAX_RETRIES))
    /\ [][ (pc = "after_retry" /\ success /\ Continues(data)) =>
              /\ current_page' = current_page + 1
              /\ pc' = "page_top"
              /\ collected' = "pending" ]_vars

\* C28's case: every page up to the last of the upstream had records and a
\* true flag and was followed by the next; the last one had a false flag and
\* collect_data returned True.
C28_Witness ==
    /\ collected = "True"
    /\ Len(pages) = MaxPages
    /\ \A p \in 1..(MaxPages - 1) : Continues(pages[p])
    /\ BodyOf(pages[MaxPages]) # <<>>
    /\ current_page = MaxPages

====
